---- MODULE Spec2Model ----
(***************************************************************************)
(* idem-azurerm: the resource-group state module (present / absent) and    *)
(* the blob-container execution module.                                    *)
(*                                                                         *)
(* Python values are modelled as follows.  A dict is a function whose      *)
(* domain is its set of keys; None is the record None where a mapping is   *)
(* expected and the string "None" where a string is expected; True, False  *)
(* and None as values of ret["result"] are the strings "True", "False",    *)
(* "None"; a formatted string is the sequence of its pieces.               *)
(***************************************************************************)
EXTENDS Naturals, Sequences, FiniteSets, TLC

\* ------------------------------------------------------------------ bounds
\* The number of values a tag may take.
MaxTagVals == 2
\* The number of blob containers the storage account may hold.
MaxContainers == 2

\* ------------------------------------------------------------- python data
EmptyDict == [k \in {} |-> ""]
None == [none |-> TRUE]
NoneStr == "None"

Truthy(d) == d # None /\ d # EmptyDict

DictGet(d, k, default) == IF k \in DOMAIN d THEN d[k] ELSE default

OrEmpty(d) == IF Truthy(d) THEN d ELSE EmptyDict

Restrict(d, S) == [k \in S |-> d[k]]

\* ------------------------------------------------------------ input domains
TagKeys == {"env"}
TagValNames == <<"prod", "dev", "test", "stage">>
TagVals == {TagValNames[i] : i \in 1..MaxTagVals}
TagDicts == UNION {[S -> TagVals] : S \in SUBSET TagKeys}
Names == {"rg1"}
Locations == {"eastus", "westus"}
Managers == {NoneStr, "mgr1"}
ExplicitAuth == [subscription_id |-> "sub-explicit"]
AcctProfile == [subscription_id |-> "sub-acct"]
Procs == {1, 2}
Ops == {"get", "create_or_update", "delete"}
NotFoundMsg == "ResourceGroupNotFound"
FaultMsg == "AuthorizationFailed"

VARIABLES remote, rejecting, inv, last, containers, acc

vars == <<remote, rejecting, inv, last, containers, acc>>

groupVars == <<remote, rejecting, inv, last>>

containerVars == <<containers, acc>>

\* ------------------------------------------------- the provider (external)
\* The provider's record of the resource group "rg1": absent, or present
\* with the properties it was created with.  rejecting is the set of
\* operations the provider currently refuses (authorization, throttling,
\* outage); it is part of the remote state and changes only by the
\* environment.
NoGroup == [exists |-> FALSE]

\* The provider serves every call, refuses the reads, refuses the writes, or
\* refuses every call.
ProviderModes == {{}, {"get"}, {"create_or_update", "delete"}, Ops}

RemoteStates ==
    {NoGroup} \cup
    [exists : {TRUE}, location : Locations, managed_by : Managers,
     tags : TagDicts \cup {None}]

\* An SDK model object wraps its attributes; as_dict() returns the mapping of
\* the attributes that are set (attributes that are None are left out).
GroupModel(name, r) ==
    LET keys == {"name", "location"}
                \cup (IF r.managed_by # NoneStr THEN {"managed_by"} ELSE {})
                \cup (IF r.tags # None THEN {"tags"} ELSE {})
    IN  [model |-> [k \in keys |->
            CASE k = "name" -> name
              [] k = "location" -> r.location
              [] k = "managed_by" -> r.managed_by
              [] k = "tags" -> r.tags]]

AsDict(obj) == obj.model

\* PUT of a resource group: creates it, or replaces the tags of an existing
\* one (location and managed_by cannot be updated once it is created).
ProviderPut(r, location, managed_by, tags) ==
    IF r.exists
    THEN [r EXCEPT !.tags = tags]
    ELSE [exists |-> TRUE, location |-> location, managed_by |-> managed_by,
          tags |-> tags]

\* ---------------------------------- hub.exec.azurerm.resource.group (accessor)
exec_group_get(name) ==
    IF "get" \in rejecting THEN [error |-> FaultMsg]
    ELSE IF remote.exists THEN AsDict(GroupModel(name, remote))
    ELSE [error |-> NotFoundMsg]

exec_group_create_or_update_accepted == "create_or_update" \notin rejecting

exec_group_create_or_update(name, location, managed_by, tags) ==
    IF exec_group_create_or_update_accepted
    THEN AsDict(GroupModel(name, ProviderPut(remote, location, managed_by, tags)))
    ELSE [error |-> FaultMsg]

exec_group_delete_accepted == "delete" \notin rejecting /\ remote.exists

\* ------------------------------------------------- dict_tools.differ.deep_diff
\* Keys whose values are equal on both sides are dropped from both; what is
\* left of each side is reported under "old" and "new" when non-empty.
DeepDiff(old, new) ==
    LET same == {k \in DOMAIN old \cap DOMAIN new : old[k] = new[k]}
        o == Restrict(old, DOMAIN old \ same)
        n == Restrict(new, DOMAIN new \ same)
        keys == (IF Truthy(o) THEN {"old"} ELSE {})
                \cup (IF Truthy(n) THEN {"new"} ELSE {})
    IN  [k \in keys |-> IF k = "old" THEN o ELSE n]

\* --------------------------------------------- states.azurerm.resource.group
\* One invocation of present or absent: its arguments, its ctx, its locals
\* and its position.  pc is "idle" before the first call, "get" while the
\* fetch is awaited, "mutate" while create_or_update or delete is awaited and
\* "done" once ret has been returned.  calls lists the accessor calls issued
\* so far; fetched keeps the response of the fetch.  last[p] is the function
\* and DesiredSpec of the latest normal-mode invocation of caller p that
\* returned result True, as long as nobody else has changed the remote state
\* since it returned (NoSpec otherwise); conv says that the invocation was
\* called with that function and DesiredSpec and that nobody else has changed
\* the remote state since.
NewRet(name) == [name |-> name, result |-> "False", comment |-> <<>>,
                 changes |-> EmptyDict]

NoCredsComment ==
    <<"Connection information must be specified via acct or connection_auth dictionary!">>

IdleInv ==
    [pc |-> "idle", fn |-> "none", name |-> "", location |-> "",
     managed_by |-> NoneStr, tags |-> None, test |-> FALSE, acct |-> None,
     arg_auth |-> None, connection_auth |-> None, group |-> EmptyDict,
     fetched |-> None, deleted |-> FALSE, ret |-> NewRet(""),
     calls |-> <<>>, conv |-> FALSE]

NoSpec == [name |-> ""]

SpecOf(i) == [fn |-> i.fn, name |-> i.name, location |-> i.location,
              managed_by |-> i.managed_by, tags |-> i.tags]

\* Mutant: the credentials of ctx["acct"] are never used.
ResolveAuth_explicit_only(connection_auth, acct) == connection_auth

\* isinstance(connection_auth, dict); ctx["acct"] otherwise; None when the
\* function returns for lack of both.
ResolveAuth(connection_auth, acct) ==
    IF connection_auth # None THEN connection_auth
    ELSE IF Truthy(acct) THEN acct
    ELSE None

HasError(group) == "error" \in DOMAIN group

\* Mutant: the response of the fetch is not inspected.
fetch_succeeded_always(group) == TRUE

\* present: "error" not in group, after the fetch.
fetch_succeeded(group) == ~HasError(group)

\* Mutant: the response of create_or_update is not inspected.
create_succeeded_always(group) == TRUE

\* present: "error" not in group, after create_or_update.
create_succeeded(group) == ~HasError(group)

\* Mutant: a failed fetch is not taken for absence.
already_absent_never(group) == FALSE

\* absent: "error" in group, after the fetch.
already_absent(group) == HasError(group)

\* Mutant: the value delete returned is not inspected.
delete_succeeded_always(deleted) == TRUE

\* absent: if deleted, after delete.
delete_succeeded(deleted) == deleted

\* Mutant: ctx["test"] is not consulted.
DryRun_ignored(i) == FALSE

DryRun(i) == i.test

\* Mutant: the diff never finds a difference.
present_changes_none(group, tags) == EmptyDict

\* Mutant: the fetched group, not its tags, is compared with the desired tags.
present_changes_whole(group, tags) == DeepDiff(group, OrEmpty(tags))

\* differ.deep_diff(group.get("tags", {}), tags or {})
present_changes(group, tags) ==
    DeepDiff(DictGet(group, "tags", EmptyDict), OrEmpty(tags))

Call(op, i) == [op |-> op, conn |-> i.connection_auth]

\* The invocations other than p, after a step of p that did (changed) or did
\* not change the remote state.
Step(p, new, changed) ==
    [q \in Procs |->
        IF q = p THEN new
        ELSE IF changed THEN [inv[q] EXCEPT !.conv = FALSE]
        ELSE inv[q]]

\* last after the same step.
Last(p, new, changed) ==
    [q \in Procs |->
        IF q = p /\ new.pc = "done" /\ ~new.test /\ new.ret.result = "True"
        THEN SpecOf(new)
        ELSE IF changed THEN NoSpec
        ELSE last[q]]

\* The first lines of present and absent: ret, the credentials, the fetch.
Begin(converged, fn, name, location, managed_by, tags, connection_auth, test, acct) ==
    LET auth == ResolveAuth(connection_auth, acct)
        i == [IdleInv EXCEPT !.fn = fn, !.name = name, !.location = location,
                 !.managed_by = managed_by, !.tags = tags, !.test = test,
                 !.acct = acct, !.arg_auth = connection_auth,
                 !.connection_auth = auth, !.ret = NewRet(name)]
    IN  IF auth = None
        THEN [i EXCEPT !.pc = "done", !.ret.comment = NoCredsComment]
        ELSE [i EXCEPT !.pc = "get", !.calls = <<Call("get", i)>>,
                 !.conv = (SpecOf(i) = converged)]

present_call(p, name, location, managed_by, tags, connection_auth, test, acct) ==
    /\ inv[p].pc = "idle"
    /\ inv' = Step(p, Begin(last[p], "present", name, location, managed_by, tags,
                            connection_auth, test, acct), FALSE)
    /\ UNCHANGED <<remote, rejecting, last, containerVars>>

\* present from the return of the fetch to the return of ret or to the call
\* of create_or_update.
present_on_get(i, group) ==
    LET j == [i EXCEPT !.group = group, !.fetched = group]
        changes == present_changes(group, i.tags)
        mutate(k) == [k EXCEPT !.pc = "mutate",
                         !.calls = Append(k.calls, Call("create_or_update", k))]
    IN  IF fetch_succeeded(group)
        THEN IF ~Truthy(changes)
             THEN [j EXCEPT !.pc = "done", !.ret.changes = changes,
                      !.ret.result = "True",
                      !.ret.comment = <<"Resource group ", i.name, " is already present.">>]
             ELSE IF DryRun(i)
             THEN [j EXCEPT !.pc = "done", !.ret.result = "None",
                      !.ret.comment = <<"Resource group ", i.name, " tags would be updated.">>,
                      !.ret.changes = [old |-> DictGet(group, "tags", EmptyDict),
                                       new |-> i.tags]]
             ELSE mutate([j EXCEPT !.ret.changes = changes])
        ELSE IF DryRun(i)
             THEN [j EXCEPT !.pc = "done", !.ret.result = "None",
                      !.ret.comment = <<"Resource group ", i.name, " would be created.">>,
                      !.ret.changes =
                          [old |-> EmptyDict,
                           new |-> [name |-> i.name, location |-> i.location,
                                    managed_by |-> i.managed_by, tags |-> i.tags]]]
             ELSE mutate(j)

present_after_get(p) ==
    /\ inv[p].pc = "get" /\ inv[p].fn = "present"
    /\ LET new == present_on_get(inv[p], exec_group_get(inv[p].name))
       IN  /\ inv' = Step(p, new, FALSE)
           /\ last' = Last(p, new, FALSE)
    /\ UNCHANGED <<remote, rejecting, containerVars>>

\* Mutant: the tag diff computed before the call stays in ret["changes"].
created_changes_diff(changes, group) == changes

\* present: ret["changes"] = {"old": {}, "new": group}
created_changes(changes, group) == [old |-> EmptyDict, new |-> group]

\* Mutant: ret["changes"] is left as it was before the call.
failed_changes_kept(ret) == ret.changes

\* present: if not ret["result"]: ret["changes"] = {}
failed_changes(ret) == IF ret.result # "True" THEN EmptyDict ELSE ret.changes

\* present from the return of create_or_update to the return of ret.
present_on_create_or_update(i, group) ==
    LET j == [i EXCEPT !.group = group, !.pc = "done"]
    IN  IF create_succeeded(group)
        THEN [j EXCEPT !.ret.result = "True",
                 !.ret.comment = <<"Resource group ", i.name, " has been created.">>,
                 !.ret.changes = created_changes(i.ret.changes, group)]
        ELSE [j EXCEPT
                 !.ret.comment = <<"Failed to create resource group ", i.name,
                                   "! (", group.error, ")">>,
                 !.ret.changes = failed_changes(i.ret)]

present_after_create_or_update(p) ==
    /\ inv[p].pc = "mutate" /\ inv[p].fn = "present"
    /\ LET i == inv[p]
           group == exec_group_create_or_update(i.name, i.location, i.managed_by, i.tags)
           new == present_on_create_or_update(i, group)
           after == IF exec_group_create_or_update_accepted
                    THEN ProviderPut(remote, i.location, i.managed_by, i.tags)
                    ELSE remote
       IN  /\ remote' = after
           /\ inv' = Step(p, new, after # remote)
           /\ last' = Last(p, new, after # remote)
    /\ UNCHANGED <<rejecting, containerVars>>

absent_call(p, name, connection_auth, test, acct) ==
    /\ inv[p].pc = "idle"
    /\ inv' = Step(p, Begin(last[p], "absent", name, "", NoneStr, None,
                            connection_auth, test, acct), FALSE)
    /\ UNCHANGED <<remote, rejecting, last, containerVars>>

\* absent from the return of the fetch to the return of ret or to the call of
\* delete.
absent_on_get(i, group) ==
    LET j == [i EXCEPT !.group = group, !.fetched = group]
    IN  IF already_absent(group)
        THEN [j EXCEPT !.pc = "done", !.ret.result = "True",
                 !.ret.comment = <<"Resource group ", i.name, " is already absent.">>]
        ELSE IF DryRun(i)
        THEN [j EXCEPT !.pc = "done", !.ret.result = "None",
                 !.ret.comment = <<"Resource group ", i.name, " would be deleted.">>,
                 !.ret.changes = [old |-> group, new |-> EmptyDict]]
        ELSE [j EXCEPT !.pc = "mutate",
                 !.calls = Append(j.calls, Call("delete", j))]

absent_after_get(p) ==
    /\ inv[p].pc = "get" /\ inv[p].fn = "absent"
    /\ LET new == absent_on_get(inv[p], exec_group_get(inv[p].name))
       IN  /\ inv' = Step(p, new, FALSE)
           /\ last' = Last(p, new, FALSE)
    /\ UNCHANGED <<remote, rejecting, containerVars>>

\* Mutant: ret["changes"] is left as it was before the call.
deleted_changes_untouched(changes, group) == changes

\* absent: ret["changes"] = {"old": group, "new": {}}
deleted_changes(changes, group) == [old |-> group, new |-> EmptyDict]

\* absent from the return of delete to the return of ret.
absent_on_delete(i, deleted) ==
    LET j == [i EXCEPT !.deleted = deleted, !.pc = "done"]
    IN  IF delete_succeeded(deleted)
        THEN [j EXCEPT !.ret.result = "True",
                 !.ret.comment = <<"Resource group ", i.name, " has been deleted.">>,
                 !.ret.changes = deleted_changes(i.ret.changes, i.group)]
        ELSE [j EXCEPT
                 !.ret.comment = <<"Failed to delete resource group ", i.name, "!">>]

absent_after_delete(p) ==
    /\ inv[p].pc = "mutate" /\ inv[p].fn = "absent"
    /\ LET deleted == exec_group_delete_accepted
           new == absent_on_delete(inv[p], deleted)
           after == IF deleted THEN NoGroup ELSE remote
       IN  /\ remote' = after
           /\ inv' = Step(p, new, after # remote)
           /\ last' = Last(p, new, after # remote)
    /\ UNCHANGED <<rejecting, containerVars>>

\* return ret: the caller has the result and the invocation is over.
returned(p) ==
    /\ inv[p].pc = "done"
    /\ inv' = [inv EXCEPT ![p] = IdleInv]
    /\ UNCHANGED <<remote, rejecting, last, containerVars>>

\* ------------------------------------------------------------- environment
\* The environment acts while the invocations are suspended in an await or
\* are not running: between the return of an accessor call and the next call
\* or the return of ret, present and absent do not suspend.
Suspended == \A q \in Procs : inv[q].pc # "done"

\* Someone else creates, changes or deletes the resource group.
other_changes_remote ==
    /\ Suspended
    /\ \E r \in RemoteStates \ {remote} : remote' = r
    /\ inv' = [q \in Procs |-> [inv[q] EXCEPT !.conv = FALSE]]
    /\ last' = [q \in Procs |-> NoSpec]
    /\ UNCHANGED <<rejecting, containerVars>>

\* The provider starts or stops refusing an operation.
provider_availability_changes ==
    /\ Suspended
    /\ \E m \in ProviderModes \ {rejecting} : rejecting' = m
    /\ inv' = [q \in Procs |-> [inv[q] EXCEPT !.conv = FALSE]]
    /\ last' = [q \in Procs |-> NoSpec]
    /\ UNCHANGED <<remote, containerVars>>

\* ------------------------------------------ exec.azurerm.storage.container
\* The blob containers of one storage account.  Every accessor function makes
\* one call of the SDK client and returns; acc is the latest call: the
\* function, the container, what the SDK call did (sdk), and what the
\* function returned (result) or the exception that left it (raised).
ContainerNameSeq == <<"c1", "c2", "c3", "c4">>
ContainerNames == {ContainerNameSeq[i] : i \in 1..MaxContainers}
ContainerNotFoundMsg == "ContainerNotFound"
SerializationMsg == "Unable to build a model"
BuildMsg == "unexpected keyword argument"
PyTrue == [bool |-> TRUE]
PyFalse == [bool |-> FALSE]

\* The SDK operations that address an existing container.
OnContainer ==
    {"clear_legal_hold", "create_or_update_immutability_policy", "delete",
     "delete_immutability_policy", "extend_immutability_policy", "get",
     "get_immutability_policy", "lease", "lock_immutability_policy",
     "set_legal_hold", "update"}

\* The containers of the account as the provider lists them.
ListItems ==
    LET Exists(c) == c \in containers
        names == SelectSeq(SubSeq(ContainerNameSeq, 1, MaxContainers), Exists)
    IN  [k \in 1..Len(names) |-> [name |-> names[k], type |-> "container"]]

Return(value) == [kind |-> "return", value |-> value, exc |-> "none", msg |-> ""]

Raise(exc, msg) == [kind |-> "raise", value |-> None, exc |-> exc, msg |-> msg]

NoCall == [kind |-> "none", value |-> None, exc |-> "none", msg |-> ""]

\* storconn.blob_containers.<op>(...): the request is serialized (not valid:
\* SerializationError), sent, and refused by the provider (fault, or no such
\* container: CloudError) or answered with a model object.
Sdk(op, n, fault, valid) ==
    IF ~valid THEN Raise("SerializationError", SerializationMsg)
    ELSE IF fault THEN Raise("CloudError", FaultMsg)
    ELSE IF op \in OnContainer /\ n \notin containers
    THEN Raise("CloudError", ContainerNotFoundMsg)
    ELSE IF op = "list"
    THEN Return([model |-> [value |-> ListItems]])
    ELSE Return([model |-> [name |-> n, type |-> op]])

ContainersAfter(op, n, out) ==
    IF out.kind # "return" THEN containers
    ELSE IF op = "create" THEN containers \cup {n}
    ELSE IF op = "delete" THEN containers \ {n}
    ELSE containers

\* Mutant: the import of the Azure libraries brings in no CloudError.
ModuleNames_no_CloudError == {"six_range", "HAS_LIBS", "log", "logging", "TypeError"}

\* The names the module binds (its imports and globals) and the builtins its
\* except clauses name.
ModuleNames == {"six_range", "HAS_LIBS", "CloudError", "log", "logging", "TypeError"}

\* The names bound in lease when the statement after the SDK call runs.
LeaseNames ==
    {"hub", "name", "account", "resource_group", "action", "kwargs", "result",
     "storconn", "leasemodel", "container"}

\* The except clauses of a try statement, tried in order on an exception of
\* class exc: the clause's expression is evaluated (NameError when the name is
\* not bound) and the first clause of the exception's class handles it.
RECURSIVE Match(_, _)
Match(exc, clauses) ==
    IF clauses = <<>> THEN [handled |-> FALSE, raised |-> exc]
    ELSE IF Head(clauses) \notin ModuleNames
    THEN [handled |-> FALSE, raised |-> "NameError"]
    ELSE IF Head(clauses) = exc THEN [handled |-> TRUE, raised |-> "none"]
    ELSE Match(exc, Tail(clauses))

\* str(exc) as the value of "error".
ErrorDict(out) == [error |-> <<out.msg>>]

ParseErrorDict(out) ==
    [error |-> <<"The object model could not be parsed. (", out.msg, ")">>]

\* try: <SDK call>; result = success  except <clauses>; return result.
\* body is the outcome of the statements of the try block, onCloudError
\* the value result has after the CloudError clause.
Try(op, n, sdk, body, success, onCloudError, clauses) ==
    LET m == Match(body.exc, clauses)
        r == [op |-> op, name |-> n, sdk |-> sdk, result |-> None,
              raised |-> "none", logged |-> FALSE]
    IN  IF body.kind = "return" THEN [r EXCEPT !.result = success]
        ELSE IF ~m.handled THEN [r EXCEPT !.raised = m.raised]
        ELSE IF body.exc = "CloudError"
        THEN [r EXCEPT !.result = onCloudError, !.logged = TRUE]
        ELSE [r EXCEPT !.result = ParseErrorDict(body)]

AccIdle == [op |-> "none", name |-> "", sdk |-> NoCall, result |-> None,
            raised |-> "none", logged |-> FALSE]

clear_legal_hold(n, fault) ==
    LET hold == Sdk("clear_legal_hold", n, fault, TRUE)
    IN  /\ acc' = Try("clear_legal_hold", n, hold, hold, AsDict(hold.value),
                      ErrorDict(hold), <<"CloudError">>)
        /\ containers' = ContainersAfter("clear_legal_hold", n, hold)
        /\ UNCHANGED groupVars

create(n, fault, valid) ==
    LET container == Sdk("create", n, fault, valid)
    IN  /\ acc' = Try("create", n, container, container, AsDict(container.value),
                      ErrorDict(container), <<"CloudError", "SerializationError">>)
        /\ containers' = ContainersAfter("create", n, container)
        /\ UNCHANGED groupVars

create_or_update_immutability_policy(n, fault, valid) ==
    LET policy == Sdk("create_or_update_immutability_policy", n, fault, valid)
    IN  /\ acc' = Try("create_or_update_immutability_policy", n, policy, policy,
                      AsDict(policy.value), ErrorDict(policy),
                      <<"CloudError", "SerializationError">>)
        /\ containers' = ContainersAfter("create_or_update_immutability_policy", n, policy)
        /\ UNCHANGED groupVars

delete(n, fault) ==
    LET container == Sdk("delete", n, fault, TRUE)
    IN  /\ acc' = Try("delete", n, container, container, PyTrue, PyFalse,
                      <<"CloudError">>)
        /\ containers' = ContainersAfter("delete", n, container)
        /\ UNCHANGED groupVars

delete_immutability_policy(n, fault) ==
    LET policy == Sdk("delete_immutability_policy", n, fault, TRUE)
    IN  /\ acc' = Try("delete_immutability_policy", n, policy, policy, PyTrue,
                      PyFalse, <<"CloudError">>)
        /\ containers' = ContainersAfter("delete_immutability_policy", n, policy)
        /\ UNCHANGED groupVars

extend_immutability_policy(n, fault) ==
    LET policy == Sdk("extend_immutability_policy", n, fault, TRUE)
    IN  /\ acc' = Try("extend_immutability_policy", n, policy, policy,
                      policy.value, ErrorDict(policy), <<"CloudError">>)
        /\ containers' = ContainersAfter("extend_immutability_policy", n, policy)
        /\ UNCHANGED groupVars

get(n, fault) ==
    LET container == Sdk("get", n, fault, TRUE)
    IN  /\ acc' = Try("get", n, container, container, AsDict(container.value),
                      ErrorDict(container), <<"CloudError">>)
        /\ containers' = ContainersAfter("get", n, container)
        /\ UNCHANGED groupVars

get_immutability_policy(n, fault) ==
    LET policy == Sdk("get_immutability_policy", n, fault, TRUE)
    IN  /\ acc' = Try("get_immutability_policy", n, policy, policy,
                      AsDict(policy.value), ErrorDict(policy), <<"CloudError">>)
        /\ containers' = ContainersAfter("get_immutability_policy", n, policy)
        /\ UNCHANGED groupVars

\* lease: the request model is built first (TypeError: the error is returned
\* and no call is made); after the SDK call the try block evaluates
\* policy.as_dict(), and policy is no name of lease.
lease(n, fault, buildable) ==
    IF ~buildable
    THEN /\ acc' = [AccIdle EXCEPT !.op = "lease", !.name = n,
                       !.result = [error |-> <<"The object model could not be built. (",
                                               BuildMsg, ")">>]]
         /\ UNCHANGED <<containers, groupVars>>
    ELSE LET container == Sdk("lease", n, fault, TRUE)
             body == IF container.kind = "return" /\ "policy" \notin LeaseNames
                                                  /\ "policy" \notin ModuleNames
                     THEN Raise("NameError", "name 'policy' is not defined")
                     ELSE container
         IN  /\ acc' = Try("lease", n, container, body, AsDict(container.value),
                           ErrorDict(container), <<"CloudError">>)
             /\ containers' = ContainersAfter("lease", n, container)
             /\ UNCHANGED groupVars

\* for container in containers_list: result[container["name"]] = container
ByName(containers_list) ==
    [nm \in {containers_list[k].name : k \in 1..Len(containers_list)} |->
        LET ks == {k \in 1..Len(containers_list) : containers_list[k].name = nm}
        IN  containers_list[CHOOSE k \in ks : \A j \in ks : j <= k]]

\* list_: containers_list = containers.as_dict().get("value", []).
list_(fault) ==
    LET found == Sdk("list", "", fault, TRUE)
    IN  /\ acc' = Try("list_", "", found, found,
                      ByName(DictGet(AsDict(found.value), "value", <<>>)),
                      ErrorDict(found), <<"CloudError">>)
        /\ containers' = ContainersAfter("list", "", found)
        /\ UNCHANGED groupVars

lock_immutability_policy(n, fault) ==
    LET policy == Sdk("lock_immutability_policy", n, fault, TRUE)
    IN  /\ acc' = Try("lock_immutability_policy", n, policy, policy,
                      policy.value, ErrorDict(policy), <<"CloudError">>)
        /\ containers' = ContainersAfter("lock_immutability_policy", n, policy)
        /\ UNCHANGED groupVars

set_legal_hold(n, fault) ==
    LET hold == Sdk("set_legal_hold", n, fault, TRUE)
    IN  /\ acc' = Try("set_legal_hold", n, hold, hold, AsDict(hold.value),
                      ErrorDict(hold), <<"CloudError">>)
        /\ containers' = ContainersAfter("set_legal_hold", n, hold)
        /\ UNCHANGED groupVars

update(n, fault, valid) ==
    LET container == Sdk("update", n, fault, valid)
    IN  /\ acc' = Try("update", n, container, container, AsDict(container.value),
                      ErrorDict(container), <<"CloudError", "SerializationError">>)
        /\ containers' = ContainersAfter("update", n, container)
        /\ UNCHANGED groupVars

\* ------------------------------------------------------------ specification
Auths == {None, ExplicitAuth}
Accts == {EmptyDict, AcctProfile}
MainProcs == {1}

Init ==
    /\ remote \in RemoteStates
    /\ rejecting = {}
    /\ inv = [q \in Procs |-> IdleInv]
    /\ last = [q \in Procs |-> NoSpec]
    /\ containers = {}
    /\ acc = AccIdle

Invoke(p) ==
    \/ \E name \in Names, location \in Locations, managed_by \in Managers,
          tags \in TagDicts \cup {None}, connection_auth \in Auths,
          test \in BOOLEAN, acct \in Accts :
          present_call(p, name, location, managed_by, tags, connection_auth, test, acct)
    \/ present_after_get(p)
    \/ present_after_create_or_update(p)
    \/ \E name \in Names, connection_auth \in Auths, test \in BOOLEAN,
          acct \in Accts :
          absent_call(p, name, connection_auth, test, acct)
    \/ absent_after_get(p)
    \/ absent_after_delete(p)
    \/ returned(p)

Next ==
    \/ \E p \in MainProcs : Invoke(p)
    \/ other_changes_remote
    \/ provider_availability_changes

Spec == Init /\ [][Next]_vars

\* The storage-container accessor on its own: any sequence of accessor calls
\* on a storage account that starts with any set of containers.
ContainerInit ==
    /\ remote = NoGroup
    /\ rejecting = {}
    /\ inv = [q \in Procs |-> IdleInv]
    /\ last = [q \in Procs |-> NoSpec]
    /\ containers \in SUBSET ContainerNames
    /\ acc = AccIdle

ContainerNext ==
    \/ \E n \in ContainerNames, fault \in BOOLEAN : clear_legal_hold(n, fault)
    \/ \E n \in ContainerNames, fault \in BOOLEAN, valid \in BOOLEAN :
          create(n, fault, valid)
    \/ \E n \in ContainerNames, fault \in BOOLEAN, valid \in BOOLEAN :
          create_or_update_immutability_policy(n, fault, valid)
    \/ \E n \in ContainerNames, fault \in BOOLEAN : delete(n, fault)
    \/ \E n \in ContainerNames, fault \in BOOLEAN : delete_immutability_policy(n, fault)
    \/ \E n \in ContainerNames, fault \in BOOLEAN : extend_immutability_policy(n, fault)
    \/ \E n \in ContainerNames, fault \in BOOLEAN : get(n, fault)
    \/ \E n \in ContainerNames, fault \in BOOLEAN : get_immutability_policy(n, fault)
    \/ \E n \in ContainerNames, fault \in BOOLEAN, buildable \in BOOLEAN :
          lease(n, fault, buildable)
    \/ \E fault \in BOOLEAN : list_(fault)
    \/ \E n \in ContainerNames, fault \in BOOLEAN : lock_immutability_policy(n, fault)
    \/ \E n \in ContainerNames, fault \in BOOLEAN : set_legal_hold(n, fault)
    \/ \E n \in ContainerNames, fault \in BOOLEAN, valid \in BOOLEAN :
          update(n, fault, valid)

ContainerSpec == ContainerInit /\ [][ContainerNext]_vars

\* Two callers run present concurrently with one DesiredSpec, in normal mode
\* and with usable credentials, against a provider that accepts every call:
\* whoever calls second passes the arguments of the one that called first.
\* Each await (the get, the create_or_update) is a step of its own, so the
\* two invocations interleave at their awaits; no one else touches the group.
\* Both run under one ctx, whose acct profile is set.
concurrent_present_call(p, name, location, managed_by, tags, connection_auth, acct) ==
    /\ ResolveAuth(connection_auth, acct) # None
    /\ \A q \in Procs \ {p} :
          inv[q].pc # "idle"
          => SpecOf(inv[q]) = [fn |-> "present", name |-> name, location |-> location,
                               managed_by |-> managed_by, tags |-> tags]
    /\ present_call(p, name, location, managed_by, tags, connection_auth, FALSE, acct)

ConcurrentInit ==
    /\ remote \in RemoteStates
    /\ rejecting = {}
    /\ inv = [q \in Procs |-> IdleInv]
    /\ last = [q \in Procs |-> NoSpec]
    /\ containers = {}
    /\ acc = AccIdle

ConcurrentNext ==
    \E p \in Procs :
        \/ \E name \in Names, location \in Locations, managed_by \in Managers,
              tags \in TagDicts \cup {None}, connection_auth \in Auths :
              concurrent_present_call(p, name, location, managed_by, tags,
                                      connection_auth, AcctProfile)
        \/ present_after_get(p)
        \/ present_after_create_or_update(p)

\* An awaited call returns and the event loop resumes the coroutine.
ConcurrentSpec ==
    /\ ConcurrentInit
    /\ [][ConcurrentNext]_vars
    /\ \A p \in Procs :
          /\ WF_vars(present_after_get(p))
          /\ WF_vars(present_after_create_or_update(p))

\* ------------------------------------------------------------------ claims
CallOps(i) == {i.calls[k].op : k \in 1..Len(i.calls)}

Mutating == {"create_or_update", "delete"}

Fetched(i) == i.fetched # None

\* C1: dry-run purity.  Every step of an invocation whose ctx["test"] is set
\* leaves the remote state as it was, and the invocation has called neither
\* create_or_update nor delete.
C1_DryRunPurity ==
    [][\A p \in Procs :
          (inv'[p].pc # inv[p].pc /\ inv'[p].test)
          => (remote' = remote /\ CallOps(inv'[p]) \cap Mutating = {})]_vars

\* C1 witness: a dry-run present has fetched a group whose tags differ from
\* the desired ones and has returned result None after the fetch alone.
C1_Witness ==
    \E p \in Procs :
        /\ inv[p].pc = "done" /\ inv[p].test /\ inv[p].ret.result = "None"
        /\ inv[p].fn = "present" /\ ~HasError(inv[p].fetched)
        /\ inv[p].calls = <<Call("get", inv[p])>>

\* C2: diff symmetry.  In normal mode, once the fetch has returned, present
\* has called create_or_update exactly when the fetch returned an error or
\* the fetched tags (no tags: {}) are not the desired tags (None: {}).
C2_DiffSymmetry ==
    \A p \in Procs :
        (inv[p].fn = "present" /\ ~inv[p].test /\ Fetched(inv[p]))
        => ("create_or_update" \in CallOps(inv[p])
            <=> (HasError(inv[p].fetched)
                 \/ DictGet(inv[p].fetched, "tags", EmptyDict) # OrEmpty(inv[p].tags)))

\* C2 witness: the fetched group has the desired tags but another location
\* and another managed_by, and present has returned without a mutating call.
C2_Witness ==
    \E p \in Procs :
        /\ inv[p].fn = "present" /\ ~inv[p].test /\ inv[p].pc = "done"
        /\ Fetched(inv[p]) /\ ~HasError(inv[p].fetched)
        /\ inv[p].tags # None /\ inv[p].tags # EmptyDict
        /\ DictGet(inv[p].fetched, "tags", EmptyDict) = inv[p].tags
        /\ inv[p].fetched.location # inv[p].location
        /\ DictGet(inv[p].fetched, "managed_by", NoneStr) # inv[p].managed_by
        /\ CallOps(inv[p]) = {"get"}

Embeds(comment, msgs) == \E k \in 1..Len(comment) : comment[k] \in msgs

\* C3: idempotence.  A present that is called with the DesiredSpec of the
\* caller's latest normal-mode present that returned result True, the remote
\* state not having been changed by anyone else since, returns result True
\* and changes {} and calls no create_or_update.
C3_Idempotence ==
    \A p \in Procs :
        (inv[p].fn = "present" /\ inv[p].conv /\ Fetched(inv[p]))
        => /\ inv[p].pc = "done"
           /\ inv[p].ret.result = "True"
           /\ inv[p].ret.changes = EmptyDict
           /\ "create_or_update" \notin CallOps(inv[p])

\* C4: absence convergence.  When the fetch of absent returns an error, absent
\* returns result True, "... is already absent." and changes {} and calls no
\* delete, in either mode; and an absent that follows a normal-mode absent
\* that returned result True, the remote state not having been changed by
\* anyone else since, gets an error from its fetch.
C4_AbsenceConvergence ==
    \A p \in Procs :
        (inv[p].fn = "absent" /\ Fetched(inv[p]))
        => /\ HasError(inv[p].fetched)
              => /\ inv[p].pc = "done"
                 /\ inv[p].ret =
                       [name |-> inv[p].name, result |-> "True",
                        comment |-> <<"Resource group ", inv[p].name, " is already absent.">>,
                        changes |-> EmptyDict]
                 /\ "delete" \notin CallOps(inv[p])
           /\ inv[p].conv => HasError(inv[p].fetched)

\* C4 witness: a normal-mode absent that follows a normal-mode absent that
\* returned result True has returned on the already-absent path.
C4_Witness ==
    \E p \in Procs :
        /\ inv[p].fn = "absent" /\ inv[p].conv /\ ~inv[p].test
        /\ inv[p].pc = "done" /\ inv[p].ret.result = "True"
        /\ inv[p].fetched = [error |-> NotFoundMsg]
        /\ CallOps(inv[p]) = {"get"}

\* C5: error isolation in present.  With usable credentials, present returns
\* result False exactly when it called create_or_update and the response has
\* the key "error"; a failed fetch followed by a successful create_or_update
\* yields result True.
C5_ErrorIsolation ==
    \A p \in Procs :
        (inv[p].fn = "present" /\ inv[p].pc = "done" /\ inv[p].connection_auth # None)
        => /\ inv[p].ret.result = "False"
              <=> ("create_or_update" \in CallOps(inv[p]) /\ HasError(inv[p].group))
           /\ (HasError(inv[p].fetched) /\ "create_or_update" \in CallOps(inv[p])
               /\ ~HasError(inv[p].group))
              => inv[p].ret.result = "True"

\* C5 witness: the fetch failed, create_or_update succeeded and present has
\* returned result True.
C5_Witness ==
    \E p \in Procs :
        /\ inv[p].fn = "present" /\ inv[p].pc = "done"
        /\ HasError(inv[p].fetched)
        /\ "create_or_update" \in CallOps(inv[p]) /\ ~HasError(inv[p].group)
        /\ inv[p].ret.result = "True"

\* C6: remote rejection surfaces as failure.  When the provider refused the
\* fetch for a reason other than the group not existing, or refused
\* create_or_update or delete, the invocation returns result False with the
\* provider's message in the comment.
C6_RejectionSurfaces ==
    \A p \in Procs :
        (inv[p].pc = "done" /\ inv[p].connection_auth # None
         /\ \/ inv[p].fetched = [error |-> FaultMsg]
            \/ ("create_or_update" \in CallOps(inv[p]) /\ HasError(inv[p].group))
            \/ ("delete" \in CallOps(inv[p]) /\ ~inv[p].deleted))
        => /\ inv[p].ret.result = "False"
           /\ Embeds(inv[p].ret.comment, {FaultMsg, NotFoundMsg})

\* C7: missing credentials.  When connection_auth is not a dict and
\* ctx["acct"] is falsy, the invocation has returned result False, changes {}
\* and the comment "Connection information must be specified ..." without any
\* accessor call; when connection_auth is not a dict and ctx["acct"] is
\* truthy, every accessor call is made with ctx["acct"].
C7_MissingCredentials ==
    \A p \in Procs :
        (inv[p].pc # "idle" /\ inv[p].arg_auth = None)
        => IF ~Truthy(inv[p].acct)
           THEN /\ inv[p].pc = "done"
                /\ inv[p].ret = [name |-> inv[p].name, result |-> "False",
                                 comment |-> NoCredsComment, changes |-> EmptyDict]
                /\ inv[p].calls = <<>>
           ELSE /\ Len(inv[p].calls) >= 1
                /\ \A k \in 1..Len(inv[p].calls) : inv[p].calls[k].conn = inv[p].acct

\* C7 witness: an invocation without credentials has returned.
C7_Witness ==
    \E p \in Procs :
        /\ inv[p].pc = "done" /\ inv[p].arg_auth = None /\ ~Truthy(inv[p].acct)
        /\ inv[p].ret.comment = NoCredsComment

\* C8: provider failure is data.  When the provider refuses the call of an
\* accessor function (the SDK raises CloudError), the function returns
\* {"error": <message>}, or False for delete and delete_immutability_policy,
\* and no exception leaves it.
C8_ProviderFailureIsData ==
    acc.sdk.exc = "CloudError"
    => /\ acc.raised = "none"
       /\ acc.result = IF acc.op \in {"delete", "delete_immutability_policy"}
                       THEN PyFalse
                       ELSE [error |-> <<acc.sdk.msg>>]

\* C8 witness: the provider has refused a lease whose request model was
\* built, and lease has returned the error.
C8_Witness ==
    /\ acc.op = "lease" /\ acc.sdk.exc = "CloudError"
    /\ acc.result = [error |-> <<FaultMsg>>] /\ acc.logged

\* C9: malformed request is data.  When the request cannot be serialized
\* (create, update, create_or_update_immutability_policy) or the request
\* model cannot be built (lease), the function returns a mapping with the key
\* "error" and no exception leaves it.
C9_MalformedRequestIsData ==
    (acc.sdk.exc = "SerializationError" \/ (acc.op = "lease" /\ acc.sdk = NoCall))
    => (acc.raised = "none" /\ HasError(acc.result))

\* C10: lease success.  When the request model is built and the provider's
\* lease call succeeds, lease returns the field mapping of the resulting
\* model and no exception leaves it.
C10_LeaseSuccess ==
    (acc.op = "lease" /\ acc.sdk.kind = "return")
    => (acc.raised = "none" /\ acc.result = AsDict(acc.sdk.value))

\* C11: uniform success shape.  When the SDK call of an accessor function
\* succeeds, the function returns the field mapping (as_dict) of the SDK's
\* model, True for delete and delete_immutability_policy, and for list_ the
\* mapping from each listed container's name to its field mapping; no
\* exception leaves it.
C11_UniformSuccessShape ==
    acc.sdk.kind = "return"
    => /\ acc.raised = "none"
       /\ IF acc.op \in {"delete", "delete_immutability_policy"}
          THEN acc.result = PyTrue
          ELSE IF acc.op = "list_"
          THEN LET items == acc.sdk.value.model.value
               IN  /\ DOMAIN acc.result = {items[k].name : k \in 1..Len(items)}
                   /\ \A k \in 1..Len(items) : acc.result[items[k].name] = items[k]
          ELSE acc.result = AsDict(acc.sdk.value)

\* Normal mode would issue a mutating call on this fetch: present on a fetch
\* error or on fetched tags that are not the desired tags, absent on a
\* successful fetch.
WouldMutate(i) ==
    IF i.fn = "present"
    THEN HasError(i.fetched)
         \/ DictGet(i.fetched, "tags", EmptyDict) # OrEmpty(i.tags)
    ELSE ~HasError(i.fetched)

\* The pending change a dry run reports.
PendingChange(i) ==
    IF i.fn = "absent" THEN [old |-> i.fetched, new |-> EmptyDict]
    ELSE IF HasError(i.fetched)
    THEN [old |-> EmptyDict,
          new |-> [name |-> i.name, location |-> i.location,
                   managed_by |-> i.managed_by, tags |-> i.tags]]
    ELSE [old |-> DictGet(i.fetched, "tags", EmptyDict), new |-> i.tags]

\* C12: dry-run report.  Once the fetch of a dry-run invocation has returned,
\* the invocation has returned; its result is None exactly when normal mode
\* would issue a mutating call, and then changes is the pending change;
\* otherwise the result is True and changes is {}.
C12_DryRunReport ==
    \A p \in Procs :
        (inv[p].test /\ Fetched(inv[p]))
        => /\ inv[p].pc = "done"
           /\ inv[p].ret.result = "None" <=> WouldMutate(inv[p])
           /\ WouldMutate(inv[p]) => inv[p].ret.changes = PendingChange(inv[p])
           /\ ~WouldMutate(inv[p])
              => (inv[p].ret.result = "True" /\ inv[p].ret.changes = EmptyDict)

\* C12 witness: a dry-run present with tags None has fetched a group that has
\* tags and reports the fetched tags as old and None as new.
C12_Witness ==
    \E p \in Procs :
        /\ inv[p].fn = "present" /\ inv[p].test /\ inv[p].pc = "done"
        /\ inv[p].tags = None /\ ~HasError(inv[p].fetched)
        /\ "tags" \in DOMAIN inv[p].fetched /\ inv[p].fetched.tags # EmptyDict
        /\ inv[p].ret.result = "None"
        /\ inv[p].ret.changes = [old |-> inv[p].fetched.tags, new |-> None]

\* C13: result=True invariant.  A returned result True either has changes {}
\* and the invocation made no mutating call, or has non-empty changes and the
\* invocation made a mutating call that succeeded and whose effect is the
\* remote state: present reports the group as it now is, absent reports the
\* fetched group and the group is gone.
C13_ResultTrueInvariant ==
    \A p \in Procs :
        (inv[p].pc = "done" /\ inv[p].ret.result = "True")
        => \/ /\ inv[p].ret.changes = EmptyDict
              /\ CallOps(inv[p]) \cap Mutating = {}
           \/ /\ inv[p].ret.changes # EmptyDict
              /\ IF inv[p].fn = "present"
                 THEN /\ "create_or_update" \in CallOps(inv[p])
                      /\ ~HasError(inv[p].group)
                      /\ remote.exists
                      /\ inv[p].ret.changes =
                            [old |-> EmptyDict,
                             new |-> AsDict(GroupModel(inv[p].name, remote))]
                 ELSE /\ "delete" \in CallOps(inv[p])
                      /\ inv[p].deleted
                      /\ remote = NoGroup
                      /\ inv[p].ret.changes =
                            [old |-> inv[p].fetched, new |-> EmptyDict]

\* C13 witness: a normal-mode absent has deleted the group it fetched and has
\* returned result True with the fetched group as the old value.
C13_Witness ==
    \E p \in Procs :
        /\ inv[p].fn = "absent" /\ inv[p].pc = "done" /\ inv[p].deleted
        /\ inv[p].ret.result = "True" /\ ~HasError(inv[p].fetched)
        /\ inv[p].ret.changes.old = inv[p].fetched /\ remote = NoGroup

\* C14: present mutation success.  When create_or_update returned a mapping
\* without the key "error", present has returned result True, the comment
\* "... has been created." and changes {old: {}, new: <the returned object>},
\* whether the fetch failed (create) or found other tags (update).
C14_MutationSuccess ==
    \A p \in Procs :
        (inv[p].fn = "present" /\ inv[p].pc = "done"
         /\ "create_or_update" \in CallOps(inv[p]) /\ ~HasError(inv[p].group))
        => inv[p].ret =
              [name |-> inv[p].name, result |-> "True",
               comment |-> <<"Resource group ", inv[p].name, " has been created.">>,
               changes |-> [old |-> EmptyDict, new |-> inv[p].group]]

\* C14 witness: present found the group with other tags, create_or_update
\* succeeded, and the reported changes are the returned object and not the
\* tag diff.
C14_Witness ==
    \E p \in Procs :
        /\ inv[p].fn = "present" /\ inv[p].pc = "done"
        /\ ~HasError(inv[p].fetched)
        /\ "create_or_update" \in CallOps(inv[p]) /\ ~HasError(inv[p].group)
        /\ inv[p].ret.changes.new = inv[p].group
        /\ inv[p].ret.changes # present_changes(inv[p].fetched, inv[p].tags)

\* C15: present mutation failure.  When create_or_update returned a mapping
\* with the key "error", present has returned result False, a comment that
\* contains the provider's error string, and changes {}.
C15_MutationFailure ==
    \A p \in Procs :
        (inv[p].fn = "present" /\ inv[p].pc = "done"
         /\ "create_or_update" \in CallOps(inv[p]) /\ HasError(inv[p].group))
        => /\ inv[p].ret.result = "False"
           /\ Embeds(inv[p].ret.comment, {inv[p].group.error})
           /\ inv[p].ret.changes = EmptyDict

\* C15 witness: present found the group with other tags, so that changes was
\* the non-empty tag diff before the call, create_or_update was refused and
\* present has returned result False with changes {}.
C15_Witness ==
    \E p \in Procs :
        /\ inv[p].fn = "present" /\ inv[p].pc = "done"
        /\ ~HasError(inv[p].fetched)
        /\ present_changes(inv[p].fetched, inv[p].tags) # EmptyDict
        /\ "create_or_update" \in CallOps(inv[p]) /\ HasError(inv[p].group)
        /\ inv[p].ret.result = "False" /\ inv[p].ret.changes = EmptyDict

\* C16: absent delete outcome.  In normal mode, once the fetch has returned a
\* group, absent has made exactly one delete call, after the get; when delete
\* returned True absent returns result True, "... has been deleted." and
\* changes {old: <the fetched group>, new: {}}; when it returned False absent
\* returns result False, "Failed to delete resource group <name>!" and
\* changes {}.
C16_DeleteOutcome ==
    \A p \in Procs :
        (inv[p].fn = "absent" /\ ~inv[p].test /\ Fetched(inv[p])
         /\ ~HasError(inv[p].fetched))
        => /\ inv[p].calls = <<Call("get", inv[p]), Call("delete", inv[p])>>
           /\ inv[p].pc \in {"mutate", "done"}
           /\ inv[p].pc = "done"
              => inv[p].ret =
                    IF inv[p].deleted
                    THEN [name |-> inv[p].name, result |-> "True",
                          comment |-> <<"Resource group ", inv[p].name,
                                        " has been deleted.">>,
                          changes |-> [old |-> inv[p].fetched, new |-> EmptyDict]]
                    ELSE [name |-> inv[p].name, result |-> "False",
                          comment |-> <<"Failed to delete resource group ",
                                        inv[p].name, "!">>,
                          changes |-> EmptyDict]

\* C16 witness: the provider refused the delete of a fetched group and absent
\* has returned result False after its one delete call.
C16_Witness ==
    \E p \in Procs :
        /\ inv[p].fn = "absent" /\ inv[p].pc = "done" /\ ~inv[p].test
        /\ ~HasError(inv[p].fetched) /\ Fetched(inv[p])
        /\ "delete" \in CallOps(inv[p]) /\ ~inv[p].deleted
        /\ inv[p].ret.result = "False" /\ remote.exists

\* The positions of the mutating calls among the calls of an invocation.
MutatingCalls(i) == {k \in 1..Len(i.calls) : i.calls[k].op \in Mutating}

\* The return of the remote call invocation p awaits.
CallReturns(p) ==
    \/ present_after_get(p)
    \/ present_after_create_or_update(p)
    \/ absent_after_get(p)
    \/ absent_after_delete(p)

\* C17: call ordering and no retry.  An invocation with usable credentials
\* calls get first and once, makes at most one mutating call (create_or_update
\* in present, delete in absent, never the other), makes no call after a call
\* the provider refused, and is never stuck: while it awaits its first or its
\* second call the return of that call is its next step, and after it the
\* invocation has returned or awaits its second and last call.
C17_CallOrderingNoRetry ==
    \A p \in Procs :
        (inv[p].pc # "idle" /\ inv[p].connection_auth # None)
        => /\ Len(inv[p].calls) >= 1 /\ inv[p].calls[1].op = "get"
           /\ \A k \in 2..Len(inv[p].calls) : inv[p].calls[k].op # "get"
           /\ Cardinality(MutatingCalls(inv[p])) <= 1
           /\ inv[p].fn = "present" => "delete" \notin CallOps(inv[p])
           /\ inv[p].fn = "absent" => "create_or_update" \notin CallOps(inv[p])
           /\ inv[p].fetched = [error |-> FaultMsg] => Len(inv[p].calls) = 1
           /\ inv[p].pc = "get" => (Len(inv[p].calls) = 1 /\ ENABLED CallReturns(p))
           /\ inv[p].pc = "mutate" => (Len(inv[p].calls) = 2 /\ ENABLED CallReturns(p))
           /\ inv[p].pc \in {"get", "mutate", "done"}

\* C18: interleaving-independent convergence.  Of two concurrent normal-mode
\* presents with one DesiredSpec against a provider that accepts every call,
\* each one that was called returns, each returns result True, and once both
\* have returned the group exists with the desired tags (None: {}).
C18_ConcurrentConvergence ==
    /\ [](\A p \in Procs : inv[p].pc = "done" => inv[p].ret.result = "True")
    /\ []((\A p \in Procs : inv[p].pc = "done")
          => \A p \in Procs :
                /\ remote.exists
                /\ OrEmpty(remote.tags) = OrEmpty(inv[p].tags))
    /\ \A p \in Procs : (inv[p].pc # "idle") ~> (inv[p].pc = "done")

\* C18 witness: both invocations found the group absent, both called
\* create_or_update, both have returned result True, and the group exists
\* with the desired, non-empty tags.
C18_Witness ==
    /\ \A p \in Procs :
          /\ inv[p].pc = "done" /\ inv[p].ret.result = "True"
          /\ inv[p].fetched = [error |-> NotFoundMsg]
          /\ "create_or_update" \in CallOps(inv[p])
          /\ inv[p].tags # None /\ inv[p].tags # EmptyDict
          /\ remote.exists /\ remote.tags = inv[p].tags
====
